---- MODULE Spec2Model ----
(***************************************************************************)
(* A model of the MCP agent of src/mcp_agent.py and of its single-action   *)
(* variant src/osdu_agent.py: the two retrying network clients             *)
(* (send_mcp_request, call_grok_3), ExecutorAgent.plan (resolve, dispatch, *)
(* format), the AgentExecutor loop that create_agents configures, the      *)
(* windowed conversation memory and the query loop of main.                *)
(*                                                                         *)
(* The registry and the completion service are the environment: every     *)
(* POST is answered by a response drawn from a finite set.  One step of    *)
(* the model is the code that runs between two network calls.              *)
(***************************************************************************)
EXTENDS Integers, Sequences, FiniteSets, TLC

(***************************************************************************)
(* JSON values as Python holds them after json.loads / response.json().    *)
(* An object is a TLA+ function from its keys to values; its keys are      *)
(* written in the order of KeyOrder.                                       *)
(***************************************************************************)
JNull == [k |-> "null"]
JStr(s) == [k |-> "str", s |-> s]
JNum(n) == [k |-> "num", n |-> n]
JList(items) == [k |-> "list", items |-> items]
JObj(f) == [k |-> "obj", f |-> f]
EmptyDict == JObj(<<>>)

\* isinstance(v, dict)
IsDict(v) == v.k = "obj"

\* key in d
HasKey(d, key) == key \in DOMAIN d.f

\* d.get(key, default)
DictGet(d, key, default) == IF key \in DOMAIN d.f THEN d.f[key] ELSE default

\* bool(v): None, "", 0, [] and {} are false
Truthy(v) ==
    CASE v.k = "null" -> FALSE
      [] v.k = "str" -> v.s # ""
      [] v.k = "num" -> v.n # 0
      [] v.k = "list" -> v.items # <<>>
      [] v.k = "obj" -> DOMAIN v.f # {}

\* a == "literal" for a value a that came out of JSON
EqStr(v, lit) == v.k = "str" /\ v.s = lit

KeyOrder ==
    << "action", "actions", "type", "tool_name", "tool_input", "resource_uri",
       "message", "tools", "resources", "well", "contents", "result",
       "choices", "content", "uri", "name", "params" >>

KeysOf(d) == SelectSeq(KeyOrder, LAMBDA key : key \in DOMAIN d.f)

RECURSIVE Join(_, _)
Join(parts, sep) ==
    IF parts = <<>> THEN ""
    ELSE IF Len(parts) = 1 THEN parts[1]
    ELSE parts[1] \o sep \o Join(Tail(parts), sep)

\* json.dumps(v) with the default separators
RECURSIVE Dumps(_)
Dumps(v) ==
    CASE v.k = "null" -> "null"
      [] v.k = "str" -> "\"" \o v.s \o "\""
      [] v.k = "num" -> ToString(v.n)
      [] v.k = "list" ->
            "[" \o Join([i \in 1..Len(v.items) |-> Dumps(v.items[i])], ", ") \o "]"
      [] v.k = "obj" ->
            LET keys == KeysOf(v)
            IN "{" \o Join([i \in 1..Len(keys) |->
                              "\"" \o keys[i] \o "\": " \o Dumps(v.f[keys[i]])], ", ")
                   \o "}"

\* repr(v), as an f-string shows a value nested in a list or a dict
RECURSIVE PyRepr(_)
PyRepr(v) ==
    CASE v.k = "null" -> "None"
      [] v.k = "str" -> "'" \o v.s \o "'"
      [] v.k = "num" -> ToString(v.n)
      [] v.k = "list" ->
            "[" \o Join([i \in 1..Len(v.items) |-> PyRepr(v.items[i])], ", ") \o "]"
      [] v.k = "obj" ->
            LET keys == KeysOf(v)
            IN "{" \o Join([i \in 1..Len(keys) |->
                              "'" \o keys[i] \o "': " \o PyRepr(v.f[keys[i]])], ", ")
                   \o "}"

\* str(v), as an f-string shows a value: a string is shown bare
PyStr(v) == IF v.k = "str" THEN v.s ELSE PyRepr(v)

(***************************************************************************)
(* Values that are no JSON value: no value yet, a response without a body, *)
(* and a body that response.json() cannot parse.                           *)
(***************************************************************************)
NoValue == [k |-> "none"]
NoBody == [k |-> "nobody"]
BadBody == [k |-> "badjson"]

(***************************************************************************)
(* Bounds of the model.                                                    *)
(***************************************************************************)
\* the longest `actions` list the completion service sends
MaxActions == 2
\* the largest section of the registry
MaxCatalog == 2
\* the queries read by main in one session
MaxQueries == 5

(***************************************************************************)
(* Program constants.                                                      *)
(***************************************************************************)
\* send_mcp_request: max_attempts = 3
max_attempts == 3
\* call_grok_3(prompt, max_retries=3)
max_retries == 3
\* AgentExecutor(..., max_iterations=5)
max_iterations == 5
\* ConversationBufferWindowMemory(k=5, ...)
memory_k == 5

Variants == {"mcp_agent", "osdu_agent"}

(***************************************************************************)
(* The capability catalog that discover_mcp_primitives and create_agents   *)
(* build: Tool objects, and one "uri: description" / "name: description"   *)
(* line per resource / prompt.                                             *)
(***************************************************************************)
ToolsOf(n) ==
    [i \in 1..n |-> [name |-> "tool_" \o ToString(i),
                     description |-> "does " \o ToString(i)]]
ResourcesOf(n) == [i \in 1..n |-> "res://" \o ToString(i) \o ": resource " \o ToString(i)]
PromptsOf(n) == [i \in 1..n |-> "prompt_" \o ToString(i) \o ": prompt " \o ToString(i)]

\* The empty registry, and registries in which every section takes every
\* size 0..MaxCatalog while the three sections differ in size.
Catalogs ==
    {[tools |-> ToolsOf(0), resources |-> ResourcesOf(0), prompts |-> PromptsOf(0)]}
    \cup {[tools |-> ToolsOf(n),
           resources |-> ResourcesOf((n + 1) % (MaxCatalog + 1)),
           prompts |-> PromptsOf((n + 2) % (MaxCatalog + 1))] : n \in 0..MaxCatalog}

(***************************************************************************)
(* What the completion service can answer.  A decision is any JSON value.  *)
(***************************************************************************)
ListRecord(type) == JObj([action |-> JStr("list"), type |-> JStr(type)])
ToolRecord(name, input) ==
    JObj([action |-> JStr("tool"), tool_name |-> JStr(name), tool_input |-> input])
ResourceRecord(uri) == JObj([action |-> JStr("resource"), resource_uri |-> JStr(uri)])
ErrorRecord(m) == JObj([action |-> JStr("error"), message |-> JStr(m)])

\* The records of which every `actions` list up to MaxActions is built.
SeqRecords ==
    { ListRecord("tools"),
      ToolRecord("tool_2", JObj([well |-> JNum(1)])),
      ToolRecord("tool_1", JStr("W-1")),
      ResourceRecord("res://1"),
      JObj([action |-> JStr("bogus")]),
      JNull }

\* Further records, sent alone.
ExtraRecords ==
    { ListRecord("resources"), ListRecord("prompts"), ListRecord("bogus"),
      JObj([action |-> JStr("list")]),
      ToolRecord("tool_9", EmptyDict),
      JObj([action |-> JStr("resource")]),
      JObj([action |-> JStr("tool"), tool_name |-> JStr("tool_1")]),
      ToolRecord("tool_1", JNull),
      JObj([action |-> JStr("tool"), tool_input |-> EmptyDict]),
      ResourceRecord(""),
      JObj([action |-> JStr("resource"), resource_uri |-> JNull]),
      ErrorRecord("inner"),
      EmptyDict,
      JStr("x") }

RECURSIVE SeqsUpTo(_, _)
SeqsUpTo(S, n) ==
    IF n = 0 THEN {<<>>}
    ELSE LET shorter == SeqsUpTo(S, n - 1)
         IN shorter \cup {Append(q, r) : q \in shorter, r \in S}

ActionLists == SeqsUpTo(SeqRecords, MaxActions) \cup {<<r>> : r \in ExtraRecords}

\* Decisions: a directive with an `actions` list, a single-record directive,
\* an error directive, a directive whose `actions` is no list, and values
\* that are no object.
Decisions ==
    {JObj([actions |-> JList(q)]) : q \in ActionLists}
    \cup {r \in SeqRecords \cup ExtraRecords : IsDict(r)}
    \cup { JObj([action |-> JStr("error")]),
           JObj([action |-> JStr("error"), message |-> JNum(7)]),
           JObj([action |-> JStr("error"), message |-> JStr("m"),
                 actions |-> JList(<<ListRecord("tools")>>)]),
           JObj([action |-> JStr("list"), type |-> JStr("tools"),
                 actions |-> JList(<<>>)]),
           JObj([actions |-> JNull]), JObj([actions |-> JNum(5)]),
           JObj([actions |-> JStr("")]), JObj([actions |-> JStr("x")]),
           JObj([actions |-> EmptyDict]),
           JObj([actions |-> JObj([action |-> JStr("list")])]),
           JList(<<>>), JList(<<ListRecord("tools")>>), JStr("list"), JNum(5), JNull }

\* Answers to the formatting request.
Formatted ==
    { JObj([tools |-> JList(<<JStr("tool_1")>>), resources |-> JList(<<>>)]),
      JObj([tools |-> JList(<<>>)]),
      JObj([resources |-> JList(<<>>)]),
      ErrorRecord("m"),
      JList(<<JStr("tools"), JStr("resources")>>) }

\* The executor loop is run against a small completion service.
ExecDecisions ==
    { ToolRecord("tool_1", JObj([well |-> JNum(1)])),
      JObj([actions |-> JList(<<ListRecord("tools"), ToolRecord("tool_1", EmptyDict)>>)]),
      ListRecord("tools"), ResourceRecord("res://1"), ErrorRecord("m"), JList(<<>>) }

\* Texts that are no JSON.
Garbage == {"", "Sure! Here is the JSON"}

JsonValues == Decisions \cup Formatted \cup ExecDecisions \cup {ErrorRecord("m")}

\* The JSON texts of the model with the value each one parses to.
JsonTexts == {<<Dumps(v), v>> : v \in JsonValues}

\* json.loads(text): the parsed value, or NoValue for json.JSONDecodeError
Loads(text) ==
    LET hits == {p \in JsonTexts : p[1] = text}
    IN IF hits = {} THEN NoValue ELSE (CHOOSE p \in hits : TRUE)[2]

(***************************************************************************)
(* HTTP responses.  t = "exc": requests.post raised (transport error or    *)
(* timeout); otherwise a status and a body.                                *)
(***************************************************************************)
Exc == [t |-> "exc", status |-> 0, body |-> NoBody]
Http(status, body) == [t |-> "http", status |-> status, body |-> body]
NoResponse == [t |-> "none", status |-> 0, body |-> NoBody]

\* A chat completion whose first choice's message carries `content`.
ChatBody(content) ==
    JObj([choices |-> JList(<<JObj([message |-> JObj([content |-> content])])>>)])

\* What the completion endpoint can answer, given the content texts it may send.
GrokResponses(texts) ==
    { Exc, Http(500, NoBody), Http(200, BadBody), Http(200, JList(<<>>)),
      Http(200, EmptyDict),
      Http(200, JObj([choices |-> JList(<<>>)])),
      Http(200, JObj([choices |-> JList(<<JObj([message |-> EmptyDict])>>)])),
      Http(200, ChatBody(JNull)),
      Http(200, ChatBody(EmptyDict)) }
    \cup {Http(200, ChatBody(JStr(text))) : text \in texts}

\* What the registry can answer.
McpResponses ==
    { Exc, Http(500, NoBody), Http(200, BadBody), Http(200, JList(<<>>)),
      Http(200, EmptyDict),
      Http(200, JObj([result |-> JObj([contents |-> JStr("data")])])),
      Http(200, JObj([result |-> JNull])),
      Http(200, JObj([result |-> JList(<<JStr("data")>>)])) }

\* An expression that raised.
Raised == [k |-> "raised"]

\* Events of a retry loop.
Post == [e |-> "post", secs |-> 0]
Sleep(secs) == [e |-> "sleep", secs |-> secs]

(***************************************************************************)
(* send_mcp_request: one pass of `for attempt in range(max_attempts)`.     *)
(***************************************************************************)
\* The body of the try block: the value returned, or NoValue when the pass
\* falls through to time.sleep(1) (non-200 status, or an exception caught).
McpTry(resp) ==
    IF resp.t = "exc" \/ resp.status # 200 THEN NoValue
    ELSE IF ~IsDict(resp.body) THEN NoValue
    ELSE DictGet(resp.body, "result", EmptyDict)

\* time.sleep(1)
McpDelay(attempt) == 1

\* Faulty alternative: the function ends without a return statement, so None is returned.
McpExhaustedNone == JNull

\* return {} after the loop
McpExhausted == EmptyDict

\* An attempt that failed: a transport exception or timeout, a status other
\* than 200, or a body that does not parse as a reply object.
McpFailure(resp) == resp.t = "exc" \/ resp.status # 200 \/ ~IsDict(resp.body)

\* The frame of a call of send_mcp_request: attempt is the loop variable, log
\* the POSTs and delays so far, last the latest response, ret the value
\* returned, fails (history) the number of failed attempts.
McpIdle ==
    [method |-> "", params |-> NoValue, attempt |-> 0, log |-> <<>>,
     last |-> NoResponse, ret |-> NoValue, fails |-> 0]
McpCall(method, params) ==
    [method |-> method, params |-> params, attempt |-> 0, log |-> <<>>,
     last |-> NoResponse, ret |-> NoValue, fails |-> 0]

\* The frame after the pending POST was answered by resp.
McpAfter(fr, resp) ==
    LET got == McpTry(resp)
        posted == Append(fr.log, Post)
        slept == Append(posted, Sleep(McpDelay(fr.attempt)))
        seen == [fr EXCEPT !.last = resp,
                           !.fails = IF McpFailure(resp) THEN fr.fails + 1 ELSE fr.fails]
    IN IF got # NoValue
       THEN [seen EXCEPT !.log = posted, !.ret = got]
       ELSE IF fr.attempt + 1 < max_attempts
       THEN [seen EXCEPT !.log = slept, !.attempt = fr.attempt + 1]
       ELSE [seen EXCEPT !.log = slept, !.ret = McpExhausted]

(***************************************************************************)
(* call_grok_3: one pass of `for attempt in range(max_retries)`.           *)
(***************************************************************************)
InvalidJsonMessage == "Invalid JSON response from Grok 3"
FailedMessage(variant) ==
    IF variant = "mcp_agent" THEN "Failed to process prompt" ELSE "Failed to process query"

\* response.json().get("choices", [{}])[0].get("message", {}).get("content", "{}")
GrokContent(body) ==
    IF ~IsDict(body) THEN Raised
    ELSE LET choices == DictGet(body, "choices", JList(<<EmptyDict>>))
             first == IF choices.k = "list" /\ choices.items # <<>>
                      THEN choices.items[1] ELSE Raised
         IN IF ~IsDict(first) THEN Raised
            ELSE LET message == DictGet(first, "message", EmptyDict)
                 IN IF ~IsDict(message) THEN Raised
                    ELSE DictGet(message, "content", JStr("{}"))

\* try: return json.loads(result) except json.JSONDecodeError: return the
\* error record.  json.loads of a value that is no string raises TypeError,
\* which only the outer handler catches.
GrokParse(content) ==
    IF content.k # "str" THEN NoValue
    ELSE LET v == Loads(content.s)
         IN IF v = NoValue THEN ErrorRecord(InvalidJsonMessage) ELSE v

\* The body of the try block: the value returned, or NoValue when the pass
\* falls through to time.sleep (non-200 status, or an exception caught).
GrokTry(resp) ==
    IF resp.t = "exc" \/ resp.status # 200 THEN NoValue
    ELSE GrokParse(GrokContent(resp.body))

\* time.sleep(2 ** attempt)
GrokDelay(attempt) == 2 ^ attempt

\* Faulty alternative: the function ends without a return statement, so None is returned.
GrokExhaustedNone(variant) == JNull

\* The return after the loop.
GrokExhausted(variant) == ErrorRecord(FailedMessage(variant))

\* An attempt that ended in a transport error or a status other than 200.
GrokNetFailure(resp) == resp.t = "exc" \/ resp.status # 200

\* The frame of a call of call_grok_3: kind tells the decision call from the
\* formatting call; netfails (history) counts the attempts that ended in a
\* transport error or a non-200 status.
GrokIdle ==
    [kind |-> "none", attempt |-> 0, log |-> <<>>, last |-> NoResponse,
     ret |-> NoValue, netfails |-> 0]
GrokCall(kind) ==
    [kind |-> kind, attempt |-> 0, log |-> <<>>, last |-> NoResponse,
     ret |-> NoValue, netfails |-> 0]

GrokAfter(fr, resp, variant) ==
    LET got == GrokTry(resp)
        posted == Append(fr.log, Post)
        slept == Append(posted, Sleep(GrokDelay(fr.attempt)))
        seen == [fr EXCEPT !.last = resp,
                           !.netfails = IF GrokNetFailure(resp) THEN fr.netfails + 1
                                        ELSE fr.netfails]
    IN IF got # NoValue
       THEN [seen EXCEPT !.log = posted, !.ret = got]
       ELSE IF fr.attempt + 1 < max_retries
       THEN [seen EXCEPT !.log = slept, !.attempt = fr.attempt + 1]
       ELSE [seen EXCEPT !.log = slept, !.ret = GrokExhausted(variant)]

(***************************************************************************)
(* What plan returns: AgentFinish, AgentAction, or an exception.           *)
(***************************************************************************)
NoResult == [t |-> "none"]
AgentFinish(output) == [t |-> "finish", output |-> output]
AgentAction(tool, tool_input) == [t |-> "action", tool |-> tool, tool_input |-> tool_input]
Raises(exc) == [t |-> "raise", exc |-> exc]

(***************************************************************************)
(* ConversationBufferWindowMemory(k=5, chat_memory=ChatMessageHistory()):  *)
(* save_context appends the human and the AI message of one turn, and the  *)
(* buffer that is read holds the last k turns.                             *)
(***************************************************************************)
Turn(input, output) == [input |-> input, output |-> output]

\* memory.save_context({"input": query}, {"output": output})
save_context(messages, input, output) == Append(messages, Turn(input, output))

\* Faulty alternative: the buffer is never cut.
BufferWhole(messages) == messages

\* memory.buffer: messages[-k * 2:], that is the last k turns
Buffer(messages) ==
    IF Len(messages) <= memory_k THEN messages
    ELSE SubSeq(messages, Len(messages) - memory_k + 1, Len(messages))

\* memory.buffer_as_str
BufferAsStr(turns) ==
    Join([i \in 1..Len(turns) |->
             "Human: " \o turns[i].input \o "\nAI: " \o PyStr(turns[i].output)], "\n")

\* The queries typed at the prompt of main.
Queries == {"list tools", "run tool_1", "hello"}

\* "\n".join(orchestrator_prompts) of config.json
instruction == "INSTRUCTION"

\* The decision prompt plan builds.
Prompt(v, ts, rs, ps, buffer_as_str, q) ==
    LET names == Join([i \in 1..Len(ts) |-> ts[i].name], ", ")
        tool_names == IF Len(ts) = 0 THEN "None" ELSE names
        described(lead) ==
            [i \in 1..Len(ts) |->
                lead \o "Name: " \o ts[i].name \o ", Description: " \o ts[i].description]
        sep == IF v = "mcp_agent" THEN ", " ELSE "\n"
        tool_part == IF Len(ts) = 0 THEN "No tools available."
                     ELSE Join(described(IF v = "mcp_agent" THEN "" ELSE "- "), sep)
        resource_part == IF Len(rs) = 0 THEN "No resources available." ELSE Join(rs, sep)
        prompt_part == IF Len(ps) = 0 THEN "No prompts available." ELSE Join(ps, sep)
    IN instruction \o "\nTools: " \o tool_part
       \o "\nResources: " \o resource_part
       \o "\nPrompts: " \o prompt_part
       \o "\nPrevious conversation: " \o buffer_as_str
       \o "\nQuery: " \o q
       \o "\nTool names: " \o tool_names
       \o "\nAgent scratchpad: "

\* No stub: the completion service and the registry are free to answer.
NoStub == [decide |-> NoResponse, format |-> NoResponse, registry |-> NoResponse]

\* A completion that carries the JSON text of v.
Completion(v) == Http(200, ChatBody(JStr(Dumps(v))))

\* The stub of a session answers by the query: a list of the tools, a call of
\* tool_1, and for any other query a JSON list; it formats every result alike.
\* It asks for no resource.
StubOf(q, registry) ==
    [decide |-> IF q = "list tools" THEN Completion(ListRecord("tools"))
                ELSE IF q = "run tool_1"
                THEN Completion(ToolRecord("tool_1", JObj([well |-> JNum(1)])))
                ELSE Completion(JList(<<>>)),
     format |-> Completion(JObj([tools |-> JList(<<JStr("tool_1")>>),
                                 resources |-> JList(<<>>)])),
     registry |-> registry]

\* The registries of a session: one that answers and one that is down.
RegistryStubs == {Http(200, JObj([result |-> JObj([contents |-> JStr("data")])])), Exc}

VARIABLES
    variant,          \* which of the two source files runs
    tools,            \* self.tools
    resources_list,   \* self.resources_list
    prompts_list,     \* self.prompts_list
    pc,               \* where the program stands
    grok,             \* the frame of call_grok_3
    mcp,              \* the frame of send_mcp_request
    grok_response,    \* plan: the decision
    actions,          \* plan: the records the loop iterates over
    idx,              \* plan: the position of the loop, from 1
    combined_output,  \* plan: the Dispatch Result
    formatted_response, \* plan: the answer to the formatting request
    planResult,       \* what the last plan pass returned
    iterations,       \* AgentExecutor: plan passes that ended in a tool call
    outcome,          \* what invoke returned to main
    grokCalls,        \* history: calls of call_grok_3 in this plan pass
    mcpCalls,         \* history: calls of send_mcp_request in this plan pass
    mcpReturns,       \* history: what send_mcp_request returned to plan in this pass
    history,          \* plan: the turns self.memory.buffer_as_str renders
    prompt,           \* plan: the decision prompt
    query,            \* the query main read / kwargs["input"]
    chat_memory,      \* memory.chat_memory: the turns saved, oldest first
    stub,             \* a completion service that answers a request always alike
    firstPass,        \* what the first of two plan passes built and returned
    queries,          \* main: the queries read so far
    discovered        \* discover_mcp_primitives: what the list calls returned

catalogVars == <<variant, tools, resources_list, prompts_list>>
planVars == <<grok_response, actions, idx, combined_output, formatted_response>>
passVars == <<mcpReturns, history, prompt>>
sessionVars == <<query, chat_memory, stub, firstPass, queries, discovered>>
vars ==
    <<variant, tools, resources_list, prompts_list, pc, grok, mcp, grok_response,
      actions, idx, combined_output, formatted_response, planResult, iterations,
      outcome, grokCalls, mcpCalls, mcpReturns, history, prompt, query, chat_memory,
      stub, firstPass, queries, discovered>>

\* create_agents has returned: the catalog is discovered and nothing has run.
Constructed ==
    /\ variant \in Variants
    /\ \E cat \in Catalogs :
          /\ tools = cat.tools
          /\ resources_list = cat.resources
          /\ prompts_list = cat.prompts
    /\ grok = GrokIdle
    /\ mcp = McpIdle
    /\ grok_response = NoValue
    /\ actions = <<>>
    /\ idx = 1
    /\ combined_output = <<>>
    /\ formatted_response = NoValue
    /\ planResult = NoResult
    /\ iterations = 0
    /\ outcome = NoResult
    /\ grokCalls = 0
    /\ mcpCalls = <<>>
    /\ mcpReturns = <<>>
    /\ history = <<>>
    /\ prompt = ""

\* One plan pass, and one query through the executor: the input is the empty
\* query, the memory is new, and the completion service is free.
Init ==
    /\ Constructed
    /\ pc = "plan"
    /\ query = ""
    /\ chat_memory = <<>>
    /\ stub = NoStub
    /\ firstPass = NoValue
    /\ queries = 0
    /\ discovered = <<>>

(***************************************************************************)
(* ExecutorAgent.plan                                                      *)
(***************************************************************************)
\* Faulty alternative: the Dispatch Result outlives the pass.
PlanStartKeeps ==
    /\ pc = "plan"
    /\ pc' = "grok"
    /\ grok' = GrokCall("decide")
    /\ grokCalls' = 1
    /\ mcpCalls' = <<>>
    /\ mcp' = McpIdle
    /\ grok_response' = NoValue
    /\ actions' = <<>>
    /\ idx' = 1
    /\ formatted_response' = NoValue
    /\ planResult' = NoResult
    /\ mcpReturns' = <<>>
    /\ history' = Buffer(chat_memory)
    /\ prompt' = Prompt(variant, tools, resources_list, prompts_list,
                        BufferAsStr(Buffer(chat_memory)), query)
    /\ UNCHANGED <<catalogVars, iterations, outcome, sessionVars, combined_output>>

\* plan is entered: the prompt is built and call_grok_3(prompt) is called.
PlanStart ==
    /\ pc = "plan"
    /\ pc' = "grok"
    /\ grok' = GrokCall("decide")
    /\ grokCalls' = 1
    /\ mcpCalls' = <<>>
    /\ mcp' = McpIdle
    /\ grok_response' = NoValue
    /\ actions' = <<>>
    /\ idx' = 1
    /\ combined_output' = <<>>
    /\ formatted_response' = NoValue
    /\ planResult' = NoResult
    /\ mcpReturns' = <<>>
    /\ history' = Buffer(chat_memory)
    /\ prompt' = Prompt(variant, tools, resources_list, prompts_list,
                        BufferAsStr(Buffer(chat_memory)), query)
    /\ UNCHANGED <<catalogVars, iterations, outcome, sessionVars>>

\* The pending POST of call_grok_3 is answered by one of `responses`.
GrokAnswered(responses) ==
    /\ pc = "grok"
    /\ \E resp \in responses :
          LET fr == GrokAfter(grok, resp, variant)
          IN /\ grok' = fr
             /\ pc' = IF fr.ret = NoValue THEN "grok"
                      ELSE IF fr.kind = "decide" THEN "validate" ELSE "formatted"
    /\ UNCHANGED <<catalogVars, mcp, planVars, planResult, iterations, outcome,
                   grokCalls, mcpCalls, passVars, sessionVars>>

\* The completion endpoint answers the pending POST of call_grok_3.
GrokAttempt(decisionTexts, formatTexts) ==
    GrokAnswered(GrokResponses(IF grok.kind = "decide" THEN decisionTexts
                               ELSE formatTexts))

\* The stub answers the pending POST of call_grok_3.
GrokStub ==
    GrokAnswered({IF grok.kind = "decide" THEN stub.decide ELSE stub.format})

\* for action_item in actions: iter(actions) raises TypeError for None and a number.
Iterable(v) == v.k \in {"list", "str", "obj"}

\* The items of the loop: a string yields its characters and a dict its keys.
IterItems(v) ==
    CASE v.k = "list" -> v.items
      [] v.k = "str" -> IF v.s = "" THEN <<>> ELSE <<JStr(v.s)>>
      [] v.k = "obj" -> LET keys == KeysOf(v) IN [i \in 1..Len(keys) |-> JStr(keys[i])]

\* Faulty alternative: a missing tool_input is taken as None.
SingleRecordBare(d) ==
    JObj([action |-> DictGet(d, "action", JNull),
          type |-> DictGet(d, "type", JNull),
          tool_name |-> DictGet(d, "tool_name", JNull),
          tool_input |-> DictGet(d, "tool_input", JNull),
          resource_uri |-> DictGet(d, "resource_uri", JStr("")),
          message |-> DictGet(d, "message", JStr(""))])

\* The single record plan makes of a directive without `actions`.
SingleRecord(d) ==
    JObj([action |-> DictGet(d, "action", JNull),
          type |-> DictGet(d, "type", JNull),
          tool_name |-> DictGet(d, "tool_name", JNull),
          tool_input |-> DictGet(d, "tool_input", EmptyDict),
          resource_uri |-> DictGet(d, "resource_uri", JStr("")),
          message |-> DictGet(d, "message", JStr(""))])

\* The records plan dispatches for the decision d.
ActionsOf(d, v) ==
    IF v = "osdu_agent" THEN JList(<<d>>)
    ELSE IF HasKey(d, "actions") THEN DictGet(d, "actions", JList(<<>>))
    ELSE JList(<<SingleRecord(d)>>)

\* Faulty alternative: the error test is made only of a directive without `actions`.
IsErrorDirectiveSingle(d) ==
    EqStr(DictGet(d, "action", JNull), "error") /\ ~HasKey(d, "actions")

\* if grok_response.get("action") == "error"
IsErrorDirective(d) == EqStr(DictGet(d, "action", JNull), "error")

\* From the return of call_grok_3(prompt) to the head of the dispatch loop.
\* grok_response.get("action") is evaluated before the isinstance check.
PlanValidate ==
    /\ pc = "validate"
    /\ grok_response' = grok.ret
    /\ grok' = GrokIdle
    /\ IF ~IsDict(grok.ret)
       THEN /\ planResult' = Raises("AttributeError")
            /\ pc' = "returned"
            /\ UNCHANGED actions
       ELSE IF IsErrorDirective(grok.ret)
       THEN /\ planResult' =
                 AgentFinish(DictGet(grok.ret, "message", JStr("Query processing failed")))
            /\ pc' = "returned"
            /\ UNCHANGED actions
       ELSE LET records == ActionsOf(grok.ret, variant)
            IN IF ~Iterable(records)
               THEN /\ planResult' = Raises("TypeError")
                    /\ pc' = "returned"
                    /\ UNCHANGED actions
               ELSE /\ actions' = IterItems(records)
                    /\ pc' = "dispatch"
                    /\ UNCHANGED planResult
    /\ UNCHANGED <<catalogVars, mcp, idx, combined_output, formatted_response,
                   iterations, outcome, grokCalls, mcpCalls, passVars, sessionVars>>

\* [f"{t.name}: {t.description}" for t in self.tools]
ToolLines(ts) == [i \in 1..Len(ts) |-> JStr(ts[i].name \o ": " \o ts[i].description)]

\* The strings of a catalog section as entries.
Lines(section) == [i \in 1..Len(section) |-> JStr(section[i])]

\* The catalog tools whose name is tool_name, in catalog order.
Matching(ts, tool_name) == SelectSeq(ts, LAMBDA t : EqStr(tool_name, t.name))

\* mcp_agent, action == "list": the entries appended.
ListEntries(item, ts, rs, ps) ==
    LET action_type == DictGet(item, "type", JNull)
    IN IF EqStr(action_type, "tools")
       THEN IF Len(ts) = 0 THEN <<JStr("No tools available")>> ELSE ToolLines(ts)
       ELSE IF EqStr(action_type, "resources")
       THEN IF Len(rs) = 0 THEN <<JStr("No resources available")>> ELSE Lines(rs)
       ELSE IF EqStr(action_type, "prompts")
       THEN IF Len(ps) = 0 THEN <<JStr("No prompts available")>> ELSE Lines(ps)
       ELSE <<JStr("Error: Invalid list type " \o PyStr(action_type))>>

\* mcp_agent, action == "tool", when the scan of self.tools returns nothing:
\* one "invalid tool input" entry per matching tool, then "not found".
ToolEntries(item, ts) ==
    LET tool_name == DictGet(item, "tool_name", JNull)
        hits == Matching(ts, tool_name)
    IN [i \in 1..Len(hits) |-> JStr("Error: Invalid tool input for " \o PyStr(tool_name))]
       \o <<JStr("Error: Tool " \o PyStr(tool_name) \o " not found")>>

\* action == "tool": whether the scan returns an AgentAction.
ToolInvoked(item, ts) ==
    /\ Len(Matching(ts, DictGet(item, "tool_name", JNull))) > 0
    /\ IsDict(DictGet(item, "tool_input", EmptyDict))

\* Faulty alternative: the request names the first catalog tool, not the matched one.
ToolRequestFirst(item, ts) ==
    AgentAction(ts[1].name, DictGet(item, "tool_input", EmptyDict))

\* The AgentAction the scan returns.
ToolRequest(item, ts) ==
    AgentAction(Matching(ts, DictGet(item, "tool_name", JNull))[1].name,
                DictGet(item, "tool_input", EmptyDict))

\* Faulty alternative: the registry is asked whenever the record has a uri field.
ResourceReadPresent(item) == HasKey(item, "resource_uri")

\* action == "resource": whether send_mcp_request("resources/read", ...) is called.
ResourceRead(item) == Truthy(DictGet(item, "resource_uri", JStr("")))

\* Faulty alternative: the uri is sent under the key name.
ReadParamsName(item) == JObj([name |-> DictGet(item, "resource_uri", JStr(""))])

\* The params of the resources/read call: {"uri": resource_uri}
ReadParams(item) == JObj([uri |-> DictGet(item, "resource_uri", JStr(""))])

\* Faulty alternative: the entries of a record are put before the earlier ones.
ExtendFront(output, entries) == entries \o output

\* combined_output.extend(entries), combined_output.append(entry)
Extend(output, entries) == output \o entries

\* One pass of `for action_item in actions` in mcp_agent.
DispatchRecord ==
    /\ pc = "dispatch"
    /\ variant = "mcp_agent"
    /\ idx <= Len(actions)
    /\ LET item == actions[idx]
           action == DictGet(item, "action", JNull)
       IN IF ~IsDict(item)
          THEN /\ planResult' = Raises("AttributeError")
               /\ pc' = "returned"
               /\ UNCHANGED <<idx, combined_output, mcp, mcpCalls>>
          ELSE IF EqStr(action, "list")
          THEN /\ combined_output' =
                    Extend(combined_output,
                           ListEntries(item, tools, resources_list, prompts_list))
               /\ idx' = idx + 1
               /\ UNCHANGED <<pc, planResult, mcp, mcpCalls>>
          ELSE IF EqStr(action, "tool")
          THEN IF ToolInvoked(item, tools)
               THEN /\ planResult' = ToolRequest(item, tools)
                    /\ pc' = "returned"
                    /\ UNCHANGED <<idx, combined_output, mcp, mcpCalls>>
               ELSE /\ combined_output' = Extend(combined_output, ToolEntries(item, tools))
                    /\ idx' = idx + 1
                    /\ UNCHANGED <<pc, planResult, mcp, mcpCalls>>
          ELSE IF EqStr(action, "resource")
          THEN IF ResourceRead(item)
               THEN /\ mcp' = McpCall("resources/read", ReadParams(item))
                    /\ mcpCalls' = Append(mcpCalls, [method |-> "resources/read",
                                                    params |-> ReadParams(item)])
                    /\ pc' = "mcp"
                    /\ UNCHANGED <<idx, combined_output, planResult>>
               ELSE /\ combined_output' =
                         Extend(combined_output,
                                <<JStr("Error: No resource URI provided")>>)
                    /\ idx' = idx + 1
                    /\ UNCHANGED <<pc, planResult, mcp, mcpCalls>>
          ELSE /\ combined_output' =
                    Extend(combined_output,
                           <<JStr("Error: Invalid action " \o PyStr(action))>>)
               /\ idx' = idx + 1
               /\ UNCHANGED <<pc, planResult, mcp, mcpCalls>>
    /\ UNCHANGED <<catalogVars, grok, grok_response, actions, formatted_response,
                   iterations, outcome, grokCalls, passVars, sessionVars>>

\* The pending POST of send_mcp_request is answered by one of `responses`.
McpAnswered(responses) ==
    /\ pc = "mcp"
    /\ \E resp \in responses :
          LET fr == McpAfter(mcp, resp)
          IN /\ mcp' = fr
             /\ pc' = IF fr.ret = NoValue THEN "mcp"
                      ELSE IF fr.method = "resources/read" THEN "read"
                      ELSE IF fr.method = "tools/call" THEN "observe"
                      ELSE "listed"
    /\ UNCHANGED <<catalogVars, grok, planVars, planResult, iterations, outcome,
                   grokCalls, mcpCalls, passVars, sessionVars>>

\* The registry answers the pending POST of send_mcp_request.
McpAttempt == McpAnswered(McpResponses)

\* The registry stub answers the pending POST of send_mcp_request.
McpStub == McpAnswered({stub.registry})

\* send_mcp_request("resources/read", ...) returned: mcp_agent appends the
\* result, osdu_agent returns it.
ReadReturn ==
    /\ pc = "read"
    /\ mcp' = McpIdle
    /\ IF variant = "mcp_agent"
       THEN /\ combined_output' = Extend(combined_output, <<mcp.ret>>)
            /\ idx' = idx + 1
            /\ pc' = "dispatch"
            /\ UNCHANGED planResult
       ELSE /\ planResult' = AgentFinish(mcp.ret)
            /\ pc' = "returned"
            /\ UNCHANGED <<idx, combined_output>>
    /\ mcpReturns' = Append(mcpReturns, mcp.ret)
    /\ UNCHANGED <<catalogVars, grok, grok_response, actions, formatted_response,
                   iterations, outcome, grokCalls, mcpCalls, history, prompt,
                   sessionVars>>

NoRelevant == JStr("No relevant tool or action found")

\* Faulty alternative: the formatting call is made for an empty result too.
NeedsFormatAlways(entries) == TRUE

\* if combined_output:
NeedsFormat(entries) == entries # <<>>

\* After the loop of mcp_agent: the formatting call, or the literal output.
PlanFormat ==
    /\ pc = "dispatch"
    /\ variant = "mcp_agent"
    /\ idx > Len(actions)
    /\ IF NeedsFormat(combined_output)
       THEN /\ grok' = GrokCall("format")
            /\ grokCalls' = grokCalls + 1
            /\ pc' = "grok"
            /\ UNCHANGED planResult
       ELSE /\ planResult' = AgentFinish(NoRelevant)
            /\ pc' = "returned"
            /\ UNCHANGED <<grok, grokCalls>>
    /\ UNCHANGED <<catalogVars, mcp, planVars, iterations, outcome, mcpCalls,
                   passVars, sessionVars>>

\* Faulty alternative: a response with a `tools` field is taken as formatted.
FormatOutputToolsOnly(response, entries) ==
    IF IsDict(response) /\ HasKey(response, "tools")
    THEN JStr(Dumps(response))
    ELSE JStr(Dumps(JList(entries)))

\* The output plan makes of the formatting response.
FormatOutput(response, entries) ==
    IF /\ IsDict(response)
       /\ HasKey(response, "tools")
       /\ HasKey(response, "resources")
    THEN JStr(Dumps(response))
    ELSE JStr(Dumps(JList(entries)))

\* call_grok_3(formatter_prompt) returned.
PlanFormatted ==
    /\ pc = "formatted"
    /\ formatted_response' = grok.ret
    /\ grok' = GrokIdle
    /\ planResult' = AgentFinish(FormatOutput(grok.ret, combined_output))
    /\ pc' = "returned"
    /\ UNCHANGED <<catalogVars, mcp, grok_response, actions, idx, combined_output,
                   iterations, outcome, grokCalls, mcpCalls, passVars, sessionVars>>

\* osdu_agent: what plan returns for the decision without a network call.
SingleResult(item, ts, rs, ps) ==
    LET action == DictGet(item, "action", JNull)
        type == DictGet(item, "type", JNull)
        tool_name == DictGet(item, "tool_name", JNull)
    IN IF EqStr(action, "list") /\ EqStr(type, "tools")
       THEN IF Len(ts) = 0 THEN AgentFinish(JStr("No tools available"))
            ELSE AgentFinish(JList(ToolLines(ts)))
       ELSE IF EqStr(action, "list") /\ EqStr(type, "resources")
       THEN AgentFinish(JList(IF Len(rs) = 0 THEN <<JStr("No resources available")>>
                               ELSE Lines(rs)))
       ELSE IF EqStr(action, "list") /\ EqStr(type, "prompts")
       THEN AgentFinish(JList(IF Len(ps) = 0 THEN <<JStr("No prompts available")>>
                               ELSE Lines(ps)))
       ELSE IF EqStr(action, "tool")
       THEN IF Len(Matching(ts, tool_name)) = 0
            THEN AgentFinish(JStr("Error: Tool " \o PyStr(tool_name) \o " not found"))
            ELSE IF ToolInvoked(item, ts) THEN ToolRequest(item, ts)
            ELSE AgentFinish(JStr("Error: Invalid tool input for " \o PyStr(tool_name)))
       ELSE IF EqStr(action, "resource")
       THEN AgentFinish(JStr("Error: No resource URI provided"))
       ELSE AgentFinish(NoRelevant)

\* osdu_agent: the if / elif chain on grok_response.get("action").
DispatchSingle ==
    /\ pc = "dispatch"
    /\ variant = "osdu_agent"
    /\ LET item == actions[1]
       IN IF EqStr(DictGet(item, "action", JNull), "resource") /\ ResourceRead(item)
          THEN /\ mcp' = McpCall("resources/read", ReadParams(item))
               /\ mcpCalls' = Append(mcpCalls, [method |-> "resources/read",
                                                params |-> ReadParams(item)])
               /\ pc' = "mcp"
               /\ UNCHANGED planResult
          ELSE /\ planResult' = SingleResult(item, tools, resources_list, prompts_list)
               /\ pc' = "returned"
               /\ UNCHANGED <<mcp, mcpCalls>>
    /\ UNCHANGED <<catalogVars, grok, planVars, iterations, outcome, grokCalls,
                   passVars, sessionVars>>

(***************************************************************************)
(* AgentExecutor(agent, tools, max_iterations=5).invoke, as main calls it: *)
(* plan is called until it returns AgentFinish; an AgentAction runs the    *)
(* tool's handler, send_mcp_request("tools/call", ...), and counts one     *)
(* iteration.                                                              *)
(***************************************************************************)
StoppedOutput == JStr("Agent stopped due to iteration limit or time limit.")

ToolCallParams(request) ==
    JObj([name |-> JStr(request.tool), params |-> request.tool_input])

\* plan returned AgentFinish or raised: invoke returns or raises.
ExecReturn ==
    /\ pc = "returned"
    /\ planResult.t \in {"finish", "raise"}
    /\ outcome' = planResult
    /\ pc' = "finished"
    /\ chat_memory' = IF planResult.t = "finish"
                      THEN save_context(chat_memory, query, planResult.output)
                      ELSE chat_memory
    /\ UNCHANGED <<catalogVars, grok, mcp, planVars, planResult, iterations, grokCalls,
                   mcpCalls, passVars, query, stub, firstPass, queries, discovered>>

\* plan returned AgentAction: the tool handler calls the registry.
ExecToolCall ==
    /\ pc = "returned"
    /\ planResult.t = "action"
    /\ mcp' = McpCall("tools/call", ToolCallParams(planResult))
    /\ mcpCalls' = Append(mcpCalls, [method |-> "tools/call",
                                     params |-> ToolCallParams(planResult)])
    /\ pc' = "mcp"
    /\ UNCHANGED <<catalogVars, grok, planVars, planResult, iterations, outcome,
                   grokCalls, passVars, sessionVars>>

\* The tool handler returned: the observation is recorded and the loop
\* goes on while iterations < max_iterations.
ExecObserve ==
    /\ pc = "observe"
    /\ iterations' = iterations + 1
    /\ mcp' = McpIdle
    /\ IF iterations + 1 < max_iterations
       THEN /\ pc' = "plan"
            /\ UNCHANGED <<outcome, chat_memory>>
       ELSE /\ pc' = "finished"
            /\ outcome' = AgentFinish(StoppedOutput)
            /\ chat_memory' = save_context(chat_memory, query, StoppedOutput)
    /\ UNCHANGED <<catalogVars, grok, planVars, planResult, grokCalls, mcpCalls,
                   passVars, query, stub, firstPass, queries, discovered>>

DecisionTexts == {Dumps(v) : v \in Decisions} \cup Garbage
FormatTexts == {Dumps(v) : v \in Formatted} \cup Garbage
ExecTexts == {Dumps(v) : v \in ExecDecisions} \cup Garbage

\* One plan pass against every decision.
Next ==
    \/ PlanStart
    \/ GrokAttempt(DecisionTexts, FormatTexts)
    \/ PlanValidate
    \/ DispatchRecord
    \/ DispatchSingle
    \/ McpAttempt
    \/ ReadReturn
    \/ PlanFormat
    \/ PlanFormatted

Spec == Init /\ [][Next]_vars

\* One query through the executor loop.
NextExec ==
    \/ PlanStart
    \/ GrokAttempt(ExecTexts, FormatTexts)
    \/ PlanValidate
    \/ DispatchRecord
    \/ DispatchSingle
    \/ McpAttempt
    \/ ReadReturn
    \/ PlanFormat
    \/ PlanFormatted
    \/ ExecReturn
    \/ ExecToolCall
    \/ ExecObserve

SpecExec == Init /\ [][NextExec]_vars

(***************************************************************************)
(* discover_mcp_primitives and create_agents: the three list calls, and    *)
(* the catalog built of what they returned.  An exception here leaves      *)
(* create_agents and ends the program.                                     *)
(***************************************************************************)
\* The registry's catalog with n items in every section.
RegistryCatalog(n) ==
    JObj([tools |-> JList([i \in 1..n |->
                      JObj([name |-> JStr("tool_" \o ToString(i)),
                            description |-> JStr("does " \o ToString(i))])]),
          resources |-> JList([i \in 1..n |->
                      JObj([uri |-> JStr("res://" \o ToString(i)),
                            name |-> JStr("resource_" \o ToString(i)),
                            description |-> JStr("resource " \o ToString(i))])]),
          prompts |-> JList([i \in 1..n |->
                      JObj([name |-> JStr("prompt_" \o ToString(i)),
                            description |-> JStr("prompt " \o ToString(i))])])])

\* What the registry can answer to a list request.
DiscoverResponses ==
    { Exc, Http(500, NoBody), Http(200, EmptyDict),
      Http(200, JObj([result |-> RegistryCatalog(0)])),
      Http(200, JObj([result |-> RegistryCatalog(MaxCatalog)])),
      Http(200, JObj([result |-> JObj([tools |-> JNull, resources |-> JNull,
                                        prompts |-> JNull])])),
      Http(200, JObj([result |-> JNull])) }

\* The list calls in the order discover_mcp_primitives makes them, and the
\* field each one reads of the result.
ListMethods == <<"tools/list", "resources/list", "prompts/list">>
ListKeys == <<"tools", "resources", "prompts">>

\* Faulty alternative: the section is read without a default.
SectionOfBare(result, key) == DictGet(result, key, JNull)

\* send_mcp_request(...).get(key, [])
SectionOf(result, key) == DictGet(result, key, JList(<<>>))

\* send_mcp_request("tools/list"), then "resources/list", then "prompts/list"
DiscoverCall ==
    /\ pc = "discover"
    /\ Len(discovered) < 3
    /\ mcp' = McpCall(ListMethods[Len(discovered) + 1], EmptyDict)
    /\ pc' = "mcp"
    /\ UNCHANGED <<catalogVars, grok, planVars, planResult, iterations, outcome,
                   grokCalls, mcpCalls, passVars, sessionVars>>

\* The registry answers the pending POST of a list call.
McpDiscover == McpAnswered(DiscoverResponses)

\* A list call returned: .get(key, []) of a value that is no mapping raises.
DiscoverReturn ==
    /\ pc = "listed"
    /\ discovered' =
          Append(discovered,
                 [section |-> IF IsDict(mcp.ret)
                              THEN SectionOf(mcp.ret, ListKeys[Len(discovered) + 1])
                              ELSE Raised,
                  exhausted |-> mcp.fails = max_attempts])
    /\ pc' = IF IsDict(mcp.ret) THEN "discover" ELSE "crashed"
    /\ mcp' = McpIdle
    /\ UNCHANGED <<catalogVars, grok, planVars, planResult, iterations, outcome,
                   grokCalls, mcpCalls, passVars, query, chat_memory, stub, firstPass,
                   queries>>

\* The Tool objects and the lines of resources and prompts are built; a
\* section that is no list cannot be iterated.
DiscoverBuild ==
    /\ pc = "discover"
    /\ Len(discovered) = 3
    /\ IF \E i \in 1..3 : discovered[i].section.k # "list"
       THEN /\ pc' = "crashed"
            /\ UNCHANGED <<tools, resources_list, prompts_list>>
       ELSE LET ts == discovered[1].section.items
                rs == discovered[2].section.items
                ps == discovered[3].section.items
            IN /\ tools' = [i \in 1..Len(ts) |->
                               [name |-> ts[i].f.name.s,
                                description |-> ts[i].f.description.s]]
               /\ resources_list' = [i \in 1..Len(rs) |->
                               rs[i].f.uri.s \o ": " \o rs[i].f.description.s]
               /\ prompts_list' = [i \in 1..Len(ps) |->
                               ps[i].f.name.s \o ": " \o ps[i].f.description.s]
               /\ pc' = "plan"
    /\ UNCHANGED <<variant, grok, mcp, planVars, planResult, iterations, outcome,
                   grokCalls, mcpCalls, passVars, sessionVars>>

InitDiscover ==
    /\ variant \in Variants
    /\ tools = <<>>
    /\ resources_list = <<>>
    /\ prompts_list = <<>>
    /\ pc = "discover"
    /\ grok = GrokIdle
    /\ mcp = McpIdle
    /\ grok_response = NoValue
    /\ actions = <<>>
    /\ idx = 1
    /\ combined_output = <<>>
    /\ formatted_response = NoValue
    /\ planResult = NoResult
    /\ iterations = 0
    /\ outcome = NoResult
    /\ grokCalls = 0
    /\ mcpCalls = <<>>
    /\ mcpReturns = <<>>
    /\ history = <<>>
    /\ prompt = ""
    /\ query = ""
    /\ chat_memory = <<>>
    /\ stub = NoStub
    /\ firstPass = NoValue
    /\ queries = 0
    /\ discovered = <<>>

\* A session from discovery to the end of its first plan pass.  The pending
\* POST of send_mcp_request is a list call's during discovery and a
\* resources/read call's after it.
NextDiscover ==
    \/ DiscoverCall
    \/ (Len(discovered) < 3 /\ McpDiscover)
    \/ DiscoverReturn
    \/ DiscoverBuild
    \/ PlanStart
    \/ GrokAttempt(ExecTexts, FormatTexts)
    \/ PlanValidate
    \/ DispatchRecord
    \/ DispatchSingle
    \/ (Len(discovered) = 3 /\ McpAttempt)
    \/ ReadReturn
    \/ PlanFormat
    \/ PlanFormatted

SpecDiscover == InitDiscover /\ [][NextDiscover]_vars

(***************************************************************************)
(* main: the loop that reads a query, hands it to the executor and saves   *)
(* the turn.  The executor has saved the turn already when invoke returns, *)
(* since the memory is also the executor's memory.                         *)
(***************************************************************************)
\* What main saves as the output of the turn: osdu_agent.py saves its JSON text.
MainOutput(v, output) == IF v = "mcp_agent" THEN output ELSE JStr(Dumps(output))

\* query = input("mcp-agent > "), and the call of invoke
MainQuery ==
    /\ pc = "input"
    /\ queries < MaxQueries
    /\ \E q \in Queries, registry \in RegistryStubs :
          /\ query' = q
          /\ stub' = StubOf(q, registry)
    /\ queries' = queries + 1
    /\ iterations' = 0
    /\ outcome' = NoResult
    /\ pc' = "plan"
    /\ UNCHANGED <<catalogVars, grok, mcp, planVars, planResult, grokCalls, mcpCalls,
                   passVars, chat_memory, firstPass, discovered>>

\* invoke returned or raised: the turn is saved, or the exception is printed.
MainResult ==
    /\ pc = "finished"
    /\ chat_memory' = IF outcome.t = "finish"
                      THEN save_context(chat_memory, query,
                                        MainOutput(variant, outcome.output))
                      ELSE chat_memory
    /\ pc' = "input"
    /\ UNCHANGED <<catalogVars, grok, mcp, planVars, planResult, iterations, outcome,
                   grokCalls, mcpCalls, passVars, query, stub, firstPass, queries, discovered>>

InitMain ==
    /\ Constructed
    /\ pc = "input"
    /\ query = ""
    /\ chat_memory = <<>>
    /\ stub = NoStub
    /\ firstPass = NoValue
    /\ queries = 0
    /\ discovered = <<>>

\* A session of queries against stubs.
NextMain ==
    \/ MainQuery
    \/ PlanStart
    \/ GrokStub
    \/ PlanValidate
    \/ DispatchRecord
    \/ DispatchSingle
    \/ McpStub
    \/ PlanFormat
    \/ PlanFormatted
    \/ ExecReturn
    \/ ExecToolCall
    \/ ExecObserve
    \/ MainResult

SpecMain == InitMain /\ [][NextMain]_vars

(***************************************************************************)
(* plan called twice with the same query, catalog and memory, against a    *)
(* completion stub that answers a request always alike.                    *)
(***************************************************************************)
\* Memories a pass can start from.
Memories ==
    { <<>>,
      <<Turn("list tools", JStr("No tools available"))>>,
      [i \in 1..(memory_k + 1) |-> Turn("hello", JStr("turn " \o ToString(i)))] }

\* The completion stubs of the two passes.
TwiceStubs ==
    {[decide |-> d, format |-> f, registry |-> NoResponse] :
        d \in GrokResponses(ExecTexts),
        f \in { Completion(JObj([tools |-> JList(<<>>), resources |-> JList(<<>>)])),
                Completion(JObj([tools |-> JList(<<>>)])),
                Exc }}

InitTwice ==
    /\ Constructed
    /\ pc = "plan"
    /\ query \in Queries
    /\ chat_memory \in Memories
    /\ stub \in TwiceStubs
    /\ firstPass = NoValue
    /\ queries = 0
    /\ discovered = <<>>

\* The first pass has returned: what it built is kept, and plan is called again.
PlanAgain ==
    /\ pc = "returned"
    /\ firstPass = NoValue
    /\ firstPass' = [prompt |-> prompt, actions |-> actions, result |-> planResult,
                     reads |-> mcpReturns]
    /\ pc' = "plan"
    /\ UNCHANGED <<catalogVars, grok, mcp, planVars, planResult, iterations, outcome,
                   grokCalls, mcpCalls, passVars, query, chat_memory, stub, queries,
                   discovered>>

NextTwice ==
    \/ PlanStart
    \/ GrokStub
    \/ PlanValidate
    \/ DispatchRecord
    \/ DispatchSingle
    \/ McpAttempt
    \/ ReadReturn
    \/ PlanFormat
    \/ PlanFormatted
    \/ PlanAgain

SpecTwice == InitTwice /\ [][NextTwice]_vars

(***************************************************************************)
(* Claims                                                                  *)
(***************************************************************************)
\* The number of POSTs in the log of a retry loop.
Posts(log) == Len(SelectSeq(log, LAMBDA ev : ev.e = "post"))

\* C1: no exception escapes ExecutorAgent.plan: whatever JSON value the
\* completion service hands back as the decision, plan returns AgentFinish
\* or AgentAction.
C1_PlanNeverRaises == planResult.t # "raise"

\* C2: processing one query always ends with a final output, after at most
\* max_iterations = 5 plan passes, and no retry loop makes more than 3 attempts.
C2_QueryEndsWithFinalOutput ==
    /\ iterations <= 5
    /\ Posts(grok.log) <= 3
    /\ Posts(mcp.log) <= 3
    /\ (pc = "finished" => outcome.t = "finish")

\* C3: while every attempt of send_mcp_request has failed the call goes on
\* until it has made exactly 3 POSTs; it then returns the empty mapping, and
\* nothing is raised.
C3_ExhaustedReturnsEmpty ==
    (mcp.method # "" /\ mcp.fails = Posts(mcp.log)) =>
        /\ mcp.ret # Raised
        /\ IF Posts(mcp.log) < 3 THEN mcp.ret = NoValue
           ELSE Posts(mcp.log) = 3 /\ mcp.ret = EmptyDict

\* C3 witness: a call of send_mcp_request whose 3 attempts failed has returned.
C3_Witness ==
    /\ mcp.method = "resources/read"
    /\ mcp.fails = 3
    /\ Posts(mcp.log) = 3
    /\ mcp.ret = EmptyDict

\* C4: an attempt of send_mcp_request that gets status 200 and a parseable
\* body ends the call with the body's `result` (the empty mapping when
\* absent), and every value send_mcp_request returns is a mapping.
C4_ReturnsMapping ==
    /\ (mcp.last.t = "http" /\ mcp.last.status = 200 /\ IsDict(mcp.last.body)) =>
           /\ mcp.ret = DictGet(mcp.last.body, "result", EmptyDict)
           /\ mcp.log[Len(mcp.log)] = Post
    /\ (mcp.ret # NoValue => IsDict(mcp.ret))

\* C5: every value call_grok_3 returns is a JSON-object-shaped mapping.
C5_GrokReturnsMapping == grok.ret # NoValue => IsDict(grok.ret)

\* C6: call_grok_3 makes at most 3 POSTs, attempt i (i = 1, 2, 3) is preceded
\* by a delay of 2^(i-1) seconds, and no delay follows the last attempt.
C6_BackoffBeforeAttempts ==
    /\ Posts(grok.log) <= 3
    /\ \A j \in 1..Len(grok.log) :
          grok.log[j].e = "post" =>
              /\ j > 1
              /\ grok.log[j - 1] = Sleep(2 ^ (Posts(SubSeq(grok.log, 1, j)) - 1))
    /\ (grok.ret # NoValue => grok.log[Len(grok.log)].e = "post")

\* The first choice's message of a status-200 response carries a content that
\* does not parse as JSON: no content, a null content, or a text that is no JSON.
ContentUnparsed(resp) ==
    /\ resp.t = "http" /\ resp.status = 200 /\ IsDict(resp.body)
    /\ HasKey(resp.body, "choices")
    /\ resp.body.f.choices.k = "list" /\ resp.body.f.choices.items # <<>>
    /\ LET first == resp.body.f.choices.items[1]
       IN /\ IsDict(first) /\ HasKey(first, "message") /\ IsDict(first.f.message)
          /\ LET content == DictGet(first.f.message, "content", NoValue)
             IN \/ content = NoValue
                \/ content.k = "null"
                \/ content.k = "str" /\ Loads(content.s) = NoValue

\* C7: a status-200 attempt whose content does not parse as JSON (a missing
\* or null content included) makes call_grok_3 return the invalid-JSON error
\* record at once, without a delay and without another POST.
C7_UnparsedReturnsAtOnce ==
    (grok.kind # "none" /\ ContentUnparsed(grok.last)) =>
        /\ grok.ret = ErrorRecord("Invalid JSON response from Grok 3")
        /\ grok.log[Len(grok.log)] = Post

\* C8 (as amended): while every attempt of call_grok_3 has ended in a non-200
\* status or a transport error the call goes on until it has made 3 POSTs; it
\* then returns {action: "error", message: "Failed to process prompt"}
\* ("Failed to process query" in osdu_agent.py), and nothing is raised.
C8_AllFailReturnsError ==
    (grok.kind # "none" /\ grok.netfails = Posts(grok.log)) =>
        /\ grok.ret # Raised
        /\ IF Posts(grok.log) < 3 THEN grok.ret = NoValue
           ELSE /\ Posts(grok.log) = 3
                /\ grok.ret =
                     ErrorRecord(IF variant = "mcp_agent" THEN "Failed to process prompt"
                                 ELSE "Failed to process query")

\* C8 witness: a call of call_grok_3 whose 3 attempts ended in a non-200
\* status or a transport error has returned.
C8_Witness ==
    /\ grok.kind = "decide"
    /\ grok.netfails = 3
    /\ grok.ret = ErrorRecord("Failed to process prompt")

\* C8 as stated: after 3 attempts that ended in a non-200 status or a transport
\* error, the record returned carries the message "Failed to process request".
C8_Original ==
    (grok.kind # "none" /\ grok.netfails = 3) =>
        grok.ret = ErrorRecord("Failed to process request")

\* The decision is an object whose `action` is "error" and that carries a message.
ErrorDecision ==
    /\ IsDict(grok_response)
    /\ HasKey(grok_response, "action")
    /\ grok_response.f.action = JStr("error")
    /\ HasKey(grok_response, "message")

\* C9: for a decision {action: "error", message: m}, with or without an
\* `actions` list, plan returns the final output m verbatim, having dispatched
\* no record and made no Transport Client call and no formatting call.
C9_ErrorVerbatim ==
    ErrorDecision =>
        /\ pc = "returned"
        /\ planResult = [t |-> "finish", output |-> grok_response.f.message]
        /\ actions = <<>> /\ idx = 1 /\ combined_output = <<>>
        /\ mcpCalls = <<>>
        /\ grokCalls = 1

\* C9 witness: plan has returned for an error decision that carries an
\* `actions` list.
C9_Witness ==
    /\ ErrorDecision
    /\ HasKey(grok_response, "actions")
    /\ pc = "returned"
    /\ planResult.t = "finish"

\* The record names a catalog tool.
NamesCatalogTool(item) ==
    /\ IsDict(item)
    /\ HasKey(item, "action") /\ item.f.action = JStr("tool")
    /\ HasKey(item, "tool_name")
    /\ \E i \in 1..Len(tools) : item.f.tool_name = JStr(tools[i].name)

\* The record's tool_input is a mapping (the empty one when it has none).
InputIsMapping(item) == HasKey(item, "tool_input") => item.f.tool_input.k = "obj"

\* The records before position i are objects.
RecordsBefore(i) == \A j \in 1..(i - 1) : actions[j].k = "obj"

\* Dispatch stops at the first position of `hits` with a request for that
\* record's tool and input: no later record is dispatched, no formatting call
\* is made and plan returns nothing else.
ShortCircuitsAtFirst(hits) ==
    LET i == CHOOSE h \in hits : \A g \in hits : h <= g
    IN RecordsBefore(i) =>
          /\ idx <= i
          /\ grokCalls = 1
          /\ pc \in {"dispatch", "mcp", "read", "returned"}
          /\ pc = "returned" =>
                /\ idx = i
                /\ planResult =
                     [t |-> "action", tool |-> actions[i].f.tool_name.s,
                      tool_input |-> IF HasKey(actions[i], "tool_input")
                                     THEN actions[i].f.tool_input ELSE EmptyDict]

\* C10 (as amended): if some record is a tool invocation whose tool_name
\* matches a catalog tool and whose tool_input is a mapping, plan returns a
\* tool-invocation request for the first such record, with that tool's name and
\* the record's tool_input unchanged; no later record is dispatched, no
\* formatting call is made and the entries of earlier records are not returned.
C10_ShortCircuit ==
    LET hits == {i \in 1..Len(actions) :
                    NamesCatalogTool(actions[i]) /\ InputIsMapping(actions[i])}
    IN hits # {} => ShortCircuitsAtFirst(hits)

\* C10 witness: plan has returned a request for the second record, after the
\* first record had contributed entries.
C10_Witness ==
    /\ pc = "returned"
    /\ Len(actions) = 2
    /\ NamesCatalogTool(actions[2]) /\ InputIsMapping(actions[2])
    /\ combined_output # <<>>
    /\ planResult.t = "action"

\* C10 as stated: the first record whose tool_name matches a catalog tool
\* short-circuits, whatever its tool_input.
C10_Original ==
    LET hits == {i \in 1..Len(actions) : NamesCatalogTool(actions[i])}
    IN hits # {} => ShortCircuitsAtFirst(hits)

\* The record about to be dispatched is an object whose `action` is a.
AtRecord(a) ==
    /\ pc = "dispatch"
    /\ idx <= Len(actions)
    /\ actions[idx].k = "obj"
    /\ "action" \in DOMAIN actions[idx].f
    /\ actions[idx].f.action = JStr(a)

\* The step contributes exactly `entries`: mcp_agent.py appends them to the
\* Dispatch Result and goes on; osdu_agent.py returns them as the output.
Contributes(entries) ==
    IF variant = "mcp_agent"
    THEN /\ combined_output' = combined_output \o entries
         /\ idx' = idx + 1
         /\ pc' = "dispatch"
    ELSE /\ pc' = "returned"
         /\ planResult'.t = "finish"
         /\ \/ planResult'.output = JList(entries)
            \/ Len(entries) = 1 /\ planResult'.output = entries[1]

\* The entries a `list` record of the given kind is to contribute.
ListedEntries(kind) ==
    IF kind = JStr("tools")
    THEN IF tools = <<>> THEN <<JStr("No tools available")>>
         ELSE [i \in 1..Len(tools) |->
                  JStr(tools[i].name \o ": " \o tools[i].description)]
    ELSE IF kind = JStr("resources")
    THEN IF resources_list = <<>> THEN <<JStr("No resources available")>>
         ELSE [i \in 1..Len(resources_list) |-> JStr(resources_list[i])]
    ELSE IF kind = JStr("prompts")
    THEN IF prompts_list = <<>> THEN <<JStr("No prompts available")>>
         ELSE [i \in 1..Len(prompts_list) |-> JStr(prompts_list[i])]
    ELSE <<JStr("Error: Invalid list type " \o PyStr(kind))>>

\* C11: a `list` record of kind tools, resources or prompts contributes the
\* sentinel "No ... available" as its only entry when that catalog section is
\* empty, and otherwise one entry per catalog item, in catalog order; a `list`
\* record of any other kind contributes one "invalid list type" error entry.
C11_ListContributes ==
    [][AtRecord("list") =>
          Contributes(ListedEntries(IF "type" \in DOMAIN actions[idx].f
                                    THEN actions[idx].f.type ELSE JNull))]_vars

\* C12: when a formatting call was made for a non-empty Dispatch Result, the
\* final output is the JSON text of the formatting response if that response
\* is an object with a `tools` and a `resources` field, and in every other
\* case the JSON text of the Dispatch Result, unchanged and in order.
C12_FormatOrFallback ==
    (pc = "returned" /\ formatted_response # NoValue) =>
        /\ combined_output # <<>>
        /\ planResult.t = "finish"
        /\ planResult.output.k = "str"
        /\ IF /\ formatted_response.k = "obj"
              /\ {"tools", "resources"} \subseteq DOMAIN formatted_response.f
           THEN planResult.output.s = Dumps(formatted_response)
           ELSE planResult.output.s = Dumps(JList(combined_output))

\* C12 witness: the formatting call failed on all its attempts, and plan has
\* returned the two entries of the Dispatch Result as JSON text.
C12_Witness ==
    /\ pc = "returned"
    /\ formatted_response = ErrorRecord("Failed to process prompt")
    /\ Len(combined_output) = 2
    /\ planResult = AgentFinish(JStr(Dumps(JList(combined_output))))

\* C13: when dispatch ends with an empty Dispatch Result, plan returns the
\* final output "No relevant tool or action found" and makes no formatting
\* call: the decision call is the only completion call of the pass.
C13_EmptyEndsNoRelevant ==
    [][(/\ pc = "dispatch"
        /\ variant = "mcp_agent"
        /\ idx > Len(actions)
        /\ combined_output = <<>>)
       => /\ pc' = "returned"
          /\ planResult' =
               [t |-> "finish", output |-> JStr("No relevant tool or action found")]
          /\ grok' = grok
          /\ grokCalls' = 1 /\ grokCalls = 1]_vars

\* C13 witness: the decision carried an empty `actions` list and plan has
\* returned "No relevant tool or action found" after one completion call.
C13_Witness ==
    /\ pc = "returned"
    /\ variant = "mcp_agent"
    /\ grok_response = JObj([actions |-> JList(<<>>)])
    /\ planResult = AgentFinish(JStr("No relevant tool or action found"))
    /\ grokCalls = 1

\* A plan pass has read the memory, and no turn has been saved since.
PassRunning == pc \notin {"input", "plan", "finished"}

\* C14: the conversation memory as plan reads it for the prompt never holds
\* more than K = 5 turns: it is the last 5 turns saved, in the order they were
\* saved, and all the turns saved while there are fewer.
C14_WindowHoldsK ==
    /\ Len(history) <= 5
    /\ PassRunning =>
          LET n == Len(chat_memory)
          IN /\ Len(history) = IF n < 5 THEN n ELSE 5
             /\ \A i \in 1..Len(history) :
                   history[i] = chat_memory[n - Len(history) + i]
             /\ prompt = Prompt(variant, tools, resources_list, prompts_list,
                                BufferAsStr(history), query)

\* C14 witness: more than K + 1 turns have been saved, and the pass reads 5
\* turns of which the first is not the oldest turn saved.
C14_Witness ==
    /\ pc = "grok"
    /\ Len(chat_memory) > 6
    /\ Len(history) = 5
    /\ history[1] # chat_memory[1]
    /\ history[5] = chat_memory[Len(chat_memory)]

\* C15 (as amended): a second plan pass with the same query, catalog and
\* memory, against a completion stub that answers alike, builds the same
\* prompt and yields the same action sequence, and it yields the same
\* outcome when the registry returned the same results to both passes.
C15_Deterministic ==
    firstPass # NoValue =>
        /\ pc # "plan" => prompt = firstPass.prompt
        /\ pc = "returned" =>
              /\ actions = firstPass.actions
              /\ mcpReturns = firstPass.reads => planResult = firstPass.result

\* C15 witness: both passes have dispatched two records and returned the same
\* final output.
C15_Witness ==
    /\ firstPass # NoValue
    /\ pc = "returned"
    /\ Len(actions) = 2
    /\ actions = firstPass.actions
    /\ planResult.t \in {"finish", "action"}
    /\ planResult = firstPass.result

\* C15 as stated: the second pass yields the same outcome as the first,
\* whatever the registry answers.
C15_Original ==
    (firstPass # NoValue /\ pc = "returned") =>
        /\ prompt = firstPass.prompt
        /\ actions = firstPass.actions
        /\ planResult = firstPass.result

\* C16: a query has one decision round: once the tool call of a matched tool
\* invocation has been executed, no second decision request and no second tool
\* call is made for the query, and a pass makes at most one formatting request.
C16_OneDecisionRound ==
    /\ iterations <= 1
    /\ grokCalls <= 2
    /\ iterations = 1 =>
          /\ ~(pc = "grok" /\ grok.kind = "decide")
          /\ mcp.method # "tools/call"

\* The `action` of the record about to be dispatched, None when it has none.
ActionAt == IF "action" \in DOMAIN actions[idx].f THEN actions[idx].f.action ELSE JNull

\* The record about to be dispatched is an object whose `action` is not one
\* of list, tool, resource.
AtUnknownRecord ==
    /\ pc = "dispatch"
    /\ idx <= Len(actions)
    /\ actions[idx].k = "obj"
    /\ ActionAt \notin {JStr("list"), JStr("tool"), JStr("resource")}

\* C17: every record whose `action` is not one of list, tool, resource
\* contributes exactly one "invalid action" error entry at its position, and
\* is never passed over in silence.
C17_UnknownRejected ==
    [][AtUnknownRecord =>
          Contributes(<<JStr("Error: Invalid action " \o PyStr(ActionAt))>>)]_vars

\* C18: if the value call_grok_3 returned for the decision request is not an
\* object, plan returns the single error output "Error: Invalid response from
\* Grok 3": nothing is raised, no record is dispatched and no formatting call
\* is made.
C18_NonObjectIsError ==
    (grok_response # NoValue /\ grok_response.k # "obj") =>
        /\ pc = "returned"
        /\ planResult =
             [t |-> "finish", output |-> JStr("Error: Invalid response from Grok 3")]
        /\ actions = <<>> /\ combined_output = <<>>
        /\ mcpCalls = <<>>
        /\ grokCalls = 1

\* The `tool_name` of the record about to be dispatched, None when it has none.
ToolNameAt ==
    IF "tool_name" \in DOMAIN actions[idx].f THEN actions[idx].f.tool_name ELSE JNull

\* C19: a tool-invocation record that does not short-circuit contributes
\* exactly one entry: "tool not found" when no catalog tool has its tool_name,
\* and "invalid tool input" when the name matches a catalog tool but the
\* tool_input is not a mapping.
C19_ToolErrorEntry ==
    [][(/\ AtRecord("tool")
        /\ ~(NamesCatalogTool(actions[idx]) /\ InputIsMapping(actions[idx])))
       => Contributes(
            <<IF NamesCatalogTool(actions[idx])
              THEN JStr("Error: Invalid tool input for " \o PyStr(ToolNameAt))
              ELSE JStr("Error: Tool " \o PyStr(ToolNameAt) \o " not found")>>)]_vars

\* The record about to be dispatched carries a non-empty `resource_uri`.
UriGiven ==
    /\ "resource_uri" \in DOMAIN actions[idx].f
    /\ actions[idx].f.resource_uri.k = "str"
    /\ actions[idx].f.resource_uri.s # ""

\* The resources/read call for the uri of the record about to be dispatched.
ReadOfUri ==
    [method |-> "resources/read",
     params |-> JObj([uri |-> actions[idx].f.resource_uri])]

\* C20: a resource record with a missing or empty resource_uri contributes the
\* "no resource URI provided" error entry and makes no Transport Client call;
\* a resource record with a non-empty uri makes exactly one resources/read
\* call with that uri and contributes exactly what the call returned, which is
\* the empty mapping when the call failed.
C20_ResourceRead ==
    [][/\ (AtRecord("resource") /\ ~UriGiven) =>
             /\ Contributes(<<JStr("Error: No resource URI provided")>>)
             /\ mcpCalls' = mcpCalls
             /\ mcp' = mcp
       /\ (AtRecord("resource") /\ UriGiven) =>
             /\ pc' = "mcp"
             /\ mcpCalls' = Append(mcpCalls, ReadOfUri)
             /\ mcp'.method = ReadOfUri.method /\ mcp'.params = ReadOfUri.params
             /\ combined_output' = combined_output
             /\ planResult' = planResult
       /\ (pc = "mcp" /\ mcp.method = "resources/read") =>
             /\ mcpCalls' = mcpCalls
             /\ combined_output' = combined_output
             /\ (pc' = "read" /\ mcp'.fails = 3) => mcp'.ret = EmptyDict
       /\ pc = "read" =>
             /\ mcpCalls' = mcpCalls
             /\ IF variant = "mcp_agent"
                THEN /\ combined_output' = Append(combined_output, mcp.ret)
                     /\ idx' = idx + 1
                     /\ pc' = "dispatch"
                ELSE /\ planResult' = [t |-> "finish", output |-> mcp.ret]
                     /\ pc' = "returned"]_vars

\* C20 witness: the one resources/read call of the pass, for res://1, failed
\* on its three attempts, and the empty mapping it returned is the entry of
\* the record.
C20_Witness ==
    /\ variant = "mcp_agent"
    /\ pc = "dispatch"
    /\ Len(actions) = 1 /\ idx = 2
    /\ mcpCalls = <<[method |-> "resources/read",
                     params |-> JObj([uri |-> JStr("res://1")])]>>
    /\ mcpReturns = <<EmptyDict>>
    /\ combined_output = <<EmptyDict>>

\* The field of a record, or the default when the record has no such field.
FieldOr(item, key, default) == IF key \in DOMAIN item.f THEN item.f[key] ELSE default

\* The record is a resource record with a non-empty uri.
Reads(item) ==
    /\ item.k = "obj"
    /\ FieldOr(item, "action", JNull) = JStr("resource")
    /\ FieldOr(item, "resource_uri", JStr("")).k = "str"
    /\ FieldOr(item, "resource_uri", JStr("")).s # ""

\* The record alone short-circuits dispatch.
ShortCircuits(item) == NamesCatalogTool(item) /\ InputIsMapping(item)

\* The entries that a record contributes when it stands alone, `read` being
\* what its resources/read call returned.
EntriesFor(item, read) ==
    LET action == FieldOr(item, "action", JNull)
        name == PyStr(FieldOr(item, "tool_name", JNull))
    IN IF action = JStr("list") THEN ListedEntries(FieldOr(item, "type", JNull))
       ELSE IF action = JStr("tool")
       THEN IF NamesCatalogTool(item)
            THEN << JStr("Error: Invalid tool input for " \o name),
                    JStr("Error: Tool " \o name \o " not found") >>
            ELSE << JStr("Error: Tool " \o name \o " not found") >>
       ELSE IF action = JStr("resource")
       THEN IF Reads(item) THEN <<read>>
            ELSE <<JStr("Error: No resource URI provided")>>
       ELSE <<JStr("Error: Invalid action " \o PyStr(action))>>

\* The number of records before position i that read a resource.
ReadsBefore(i) == Cardinality({j \in 1..(i - 1) : Reads(actions[j])})

\* The entries of the records 1..n, each record's entries after those of the
\* records before it.
RECURSIVE EntriesUpTo(_)
EntriesUpTo(n) ==
    IF n = 0 THEN <<>>
    ELSE EntriesUpTo(n - 1)
         \o EntriesFor(actions[n],
                       IF Reads(actions[n]) THEN mcpReturns[ReadsBefore(n) + 1]
                       ELSE NoValue)

\* C21: the Dispatch Result keeps the order of the records: it is, for the
\* records dispatched so far, the entries of the first record, then those of
\* the second, and so on, and the entries of a record are those it
\* contributes when it stands alone, whatever the other records are.
C21_RecordOrderKept ==
    variant = "mcp_agent" => combined_output = EntriesUpTo(idx - 1)

\* C21 witness: dispatch has ended without a short-circuit for two records
\* that contribute different entries.
C21_Witness ==
    /\ variant = "mcp_agent"
    /\ Len(actions) = 2 /\ idx = 3
    /\ pc = "returned"
    /\ actions[1] # actions[2]
    /\ Len(combined_output) >= 3
    /\ combined_output[1] # combined_output[Len(combined_output)]

\* The decision is an object without `actions` whose `action` is not "error".
SingleDirective ==
    /\ grok_response # NoValue
    /\ grok_response.k = "obj"
    /\ "actions" \notin DOMAIN grok_response.f
    /\ FieldOr(grok_response, "action", JNull) # JStr("error")

\* C22: a directive X without `actions`, whose `action` is not "error", is
\* handled as the directive {"actions": [X]} is: the Dispatch Result holds the
\* entries that the record X contributes, the resources/read call is the one
\* of X, and the tool-invocation request is the one of X, with the fields of
\* X that are missing read as they are read from a record of a list.
C22_SingleAsList ==
    (variant = "mcp_agent" /\ SingleDirective) =>
        LET X == grok_response
        IN /\ Len(actions) = 1
           /\ pc \in {"dispatch", "mcp", "read", "grok", "formatted", "returned"}
           /\ ShortCircuits(X) <=> ShortCircuits(actions[1])
           /\ Reads(X) <=> Reads(actions[1])
           /\ (pc = "returned" /\ idx = 1) =>
                 /\ ShortCircuits(X)
                 /\ planResult =
                      [t |-> "action", tool |-> X.f.tool_name.s,
                       tool_input |-> FieldOr(X, "tool_input", EmptyDict)]
           /\ pc \in {"mcp", "read"} =>
                 /\ Reads(X)
                 /\ mcpCalls = <<[method |-> "resources/read",
                                  params |-> JObj([uri |-> X.f.resource_uri])]>>
           /\ idx = 2 =>
                 /\ ~ShortCircuits(X)
                 /\ combined_output =
                      EntriesFor(X, IF Reads(X) THEN mcpReturns[1] ELSE NoValue)

\* C22 witness: the directive is a tool invocation of a catalog tool without
\* `tool_input`, and plan has returned the request with the empty mapping.
C22_Witness ==
    /\ variant = "mcp_agent"
    /\ SingleDirective
    /\ grok_response = JObj([action |-> JStr("tool"), tool_name |-> JStr("tool_1")])
    /\ pc = "returned"
    /\ planResult = [t |-> "action", tool |-> "tool_1", tool_input |-> EmptyDict]

\* The number of delays in the log of a retry loop.
Sleeps(log) == Len(SelectSeq(log, LAMBDA ev : ev.e = "sleep"))

\* C23: send_mcp_request waits 1 second only between two attempts: a call
\* that has returned has waited once less than it has made attempts (twice
\* for 3 failed attempts, never for a first attempt that succeeds), and it
\* returns right after its last attempt.
C23_WaitsBetweenAttempts ==
    /\ \A j \in 1..Len(mcp.log) : mcp.log[j].e = "sleep" => mcp.log[j].secs = 1
    /\ mcp.ret # NoValue =>
          /\ Sleeps(mcp.log) = Posts(mcp.log) - 1
          /\ mcp.log[Len(mcp.log)] = Post

\* C24: the memory gains a turn only when a query has completed with a final
\* output: main then appends exactly one turn for the query, after invoke has
\* returned; nothing else appends a turn, and a query that ended in an
\* exception appends none.
C24_OneTurnPerQuery ==
    [][/\ chat_memory' # chat_memory =>
             /\ pc = "finished" /\ pc' = "input"
             /\ outcome.t = "finish"
             /\ Len(chat_memory') = Len(chat_memory) + 1
             /\ SubSeq(chat_memory', 1, Len(chat_memory)) = chat_memory
             /\ chat_memory'[Len(chat_memory')].input = query
       /\ (pc = "finished" /\ pc' = "input" /\ outcome.t = "finish") =>
             Len(chat_memory') = Len(chat_memory) + 1
       /\ (pc = "finished" /\ pc' = "input" /\ outcome.t # "finish") =>
             chat_memory' = chat_memory]_vars

\* Every list call of discovery made so far has exhausted its attempts.
DiscoveryExhausted == \A i \in 1..Len(discovered) : discovered[i].exhausted

\* The entries that a record contributes against a registry with no tools,
\* no resources and no prompts.
EmptyRegistryEntries(item, read) ==
    LET action == FieldOr(item, "action", JNull)
        kind == FieldOr(item, "type", JNull)
    IN IF action = JStr("list")
       THEN IF kind = JStr("tools") THEN <<JStr("No tools available")>>
            ELSE IF kind = JStr("resources") THEN <<JStr("No resources available")>>
            ELSE IF kind = JStr("prompts") THEN <<JStr("No prompts available")>>
            ELSE <<JStr("Error: Invalid list type " \o PyStr(kind))>>
       ELSE IF action = JStr("tool")
       THEN <<JStr("Error: Tool " \o PyStr(FieldOr(item, "tool_name", JNull))
                   \o " not found")>>
       ELSE IF action = JStr("resource")
       THEN IF Reads(item) THEN <<read>>
            ELSE <<JStr("Error: No resource URI provided")>>
       ELSE <<JStr("Error: Invalid action " \o PyStr(action))>>

RECURSIVE EmptyRegistryUpTo(_)
EmptyRegistryUpTo(n) ==
    IF n = 0 THEN <<>>
    ELSE EmptyRegistryUpTo(n - 1)
         \o EmptyRegistryEntries(actions[n],
                                 IF Reads(actions[n]) THEN mcpReturns[ReadsBefore(n) + 1]
                                 ELSE NoValue)

\* C25: a session whose three list calls of discovery all exhaust their
\* attempts does not raise, starts with the catalog of a registry that has no
\* tools, no resources and no prompts, and dispatches every directive as a
\* session against that registry does: a list of tools gives "No tools
\* available", a tool invocation gives "tool not found", and no tool is
\* ever requested.
C25_ExhaustedDiscoveryIsEmpty ==
    DiscoveryExhausted =>
        /\ pc # "crashed"
        /\ tools = <<>> /\ resources_list = <<>> /\ prompts_list = <<>>
        /\ planResult.t # "action"
        /\ variant = "mcp_agent" => combined_output = EmptyRegistryUpTo(idx - 1)
        /\ (variant = "osdu_agent" /\ pc = "returned" /\ Len(actions) = 1
                /\ actions[1].k = "obj") =>
              LET X == actions[1]
              IN /\ (FieldOr(X, "action", JNull) = JStr("list")
                        /\ FieldOr(X, "type", JNull) = JStr("tools")) =>
                       planResult = AgentFinish(JStr("No tools available"))
                 /\ FieldOr(X, "action", JNull) = JStr("tool") =>
                       planResult = AgentFinish(EmptyRegistryEntries(X, NoValue)[1])

\* C25 witness: after three exhausted list calls a directive that lists the
\* tools and invokes tool_1 has been dispatched.
C25_Witness ==
    /\ variant = "mcp_agent"
    /\ Len(discovered) = 3 /\ DiscoveryExhausted
    /\ pc = "returned"
    /\ actions = <<ListRecord("tools"), ToolRecord("tool_1", EmptyDict)>>
    /\ combined_output = <<JStr("No tools available"),
                           JStr("Error: Tool tool_1 not found")>>

\* The resources/read calls of the records 1..n, in record order.
RECURSIVE ReadCallsUpTo(_)
ReadCallsUpTo(n) ==
    IF n = 0 THEN <<>>
    ELSE IF Reads(actions[n])
    THEN Append(ReadCallsUpTo(n - 1),
                [method |-> "resources/read",
                 params |-> JObj([uri |-> actions[n].f.resource_uri])])
    ELSE ReadCallsUpTo(n - 1)

\* C26: when dispatch short-circuits at record i, the resources/read calls
\* made in the plan pass are exactly those of the resource records with a
\* non-empty uri before position i, in record order, each one completed,
\* and there is none for a record after i.
C26_ReadsBeforeShortCircuit ==
    (variant = "mcp_agent" /\ pc = "returned" /\ planResult.t = "action") =>
        /\ ShortCircuits(actions[idx])
        /\ mcpCalls = ReadCallsUpTo(idx - 1)
        /\ Len(mcpReturns) = Len(mcpCalls)

\* C26 witness: a resource was read for the first record, and the second
\* record short-circuited dispatch: what was read is not in the request
\* that plan returns.
C26_Witness ==
    /\ variant = "mcp_agent"
    /\ pc = "returned" /\ planResult.t = "action"
    /\ idx = 2
    /\ Reads(actions[1])
    /\ Len(mcpCalls) = 1
    /\ combined_output = <<mcpReturns[1]>>

\* The decision is an object whose `action` is not "error".
ObjectDirective ==
    /\ grok_response # NoValue
    /\ grok_response.k = "obj"
    /\ FieldOr(grok_response, "action", JNull) # JStr("error")

\* C27: every dispatched record that does not short-circuit contributes at
\* least one entry to the Dispatch Result (a resource record once its read
\* has returned), so plan, for a directive that is an object without `action`
\* "error", ends with the output "No relevant tool or action found" if and
\* only if the `actions` list is empty.
C27_EveryRecordContributes ==
    [][variant = "mcp_agent" =>
          /\ (pc = "dispatch" /\ idx <= Len(actions) /\ ~ShortCircuits(actions[idx])) =>
                \/ pc' = "mcp"
                \/ /\ pc' = "dispatch"
                   /\ idx' = idx + 1
                   /\ Len(combined_output') > Len(combined_output)
          /\ pc = "read" =>
                /\ idx' = idx + 1
                /\ Len(combined_output') > Len(combined_output)
          /\ (pc # "returned" /\ pc' = "returned" /\ ObjectDirective
                 /\ planResult'.t = "finish") =>
                (planResult'.output = NoRelevant <=> actions = <<>>)]_vars
====
